---- MODULE Spec2Model ----
(***************************************************************************)
(* Model of src/script.js: the visibility-driven animation observer and    *)
(* its counter easing, the scripted chat timeline, the contact form and    *)
(* the scroll progress bar.  Each component has its own specification      *)
(* (SpecAnim, SpecChat, SpecForm, SpecScroll) over the shared variables;   *)
(* a component's specification leaves the other components' variables     *)
(* unchanged.                                                              *)
(***************************************************************************)
EXTENDS Integers, Sequences, FiniteSets, TLC

VARIABLES
    \* ---- AnimationObserver ----
    dataTarget,        \* the counter element's data-target attribute
    sumsLow,           \* whether the floating-point sums of the increment
                       \* fall just short of their exact value
    classList,         \* element -> set of CSS classes
    animatedElements,  \* AnimationObserver.animatedElements (a Set)
    enteredCount,      \* history: element -> times the entered branch ran
    counterRuns,       \* live animateCounter closures, in start order
    rendered,          \* history: element -> values written to textContent
    \* ---- TelegramAnimator ----
    isAnimating,       \* TelegramAnimator.isAnimating
    currentMessageIndex,
    messageContainer,  \* children of .telegram-messages, in DOM order
    timelines,         \* live startAnimation runs and their pending timer
    sinceTyped,        \* history: time since the newest container was full
    reentrySeen,       \* history: where the timeline was when a visibility
                       \* callback found isAnimating set
    \* ---- FormController ----
    fieldValue,        \* field name -> current value
    fieldError,        \* field name -> has class 'error'
    submitDisabled,    \* submitButton.disabled
    loadingDisplay,    \* loadingSpan.style.display
    labelDisplay,      \* display of the button's span:not(.btn-loading)
    apiCalls,          \* pending simulateApiCall timers (one per handleSubmit)
    banners,           \* success/error divs attached to the form, with timer
    staleTimers,       \* removal timers whose banner is already detached
    lastSubmit,        \* history: what the latest handleSubmit did
    \* ---- scroll progress bar ----
    scrollY,           \* window.scrollY
    scrollHeight,      \* document.documentElement.scrollHeight
    innerHeight,       \* window.innerHeight
    progressWritten,   \* last value assigned to progressBar.style.width
    progressWidth,     \* the bar's resulting width
    inThrottle,        \* throttle closure's inThrottle
    throttleTimer,     \* remaining time of the throttle's setTimeout
    \* ---- NavigationController: active link ----
    navSections,       \* the section[id] elements in document order
    navHrefs,          \* href of each .nav-link in document order
    navActive,         \* link index -> has class 'active'
    navLastPos,        \* history: scrollPos of the latest updateActiveLink
    navMarkup,         \* history: the links' 'active' state in the markup
    navInThrottle,     \* inThrottle of the throttle around updateActiveLink
    navThrottleTimer,  \* remaining time of that throttle's setTimeout
    \* ---- validateField on its own ----
    vName,             \* name attribute of the field
    vValue,            \* field.value
    vError,            \* the field has class 'error'
    vResult,           \* history: Just(returned value) after the call
    \* ---- debounce around drawChart ----
    debTimers,         \* pending setTimeout(later, wait): [id, left, args]
    debTimeout,        \* the closure's timeout: Just(timer id) once set
    debLog,            \* history: args of the executions of func, in order
    debLastArgs,       \* history: Just(args) of the most recent call
    debSince,          \* history: time since the most recent call
    debExecs,          \* history: executions since the most recent call
    \* ---- tooltip of one [data-tooltip] element ----
    tipCreated,        \* the tooltip divs created so far: [attached, opacity]
    tipHandle,         \* element._tooltip: Just(index into tipCreated)
    tipHover,          \* the pointer is over the element
    tipTimers,         \* pending timeouts: [kind, left, tip]
    \* ---- NavigationController: mobile menu ----
    menuActive,        \* .nav-menu has class 'active'
    hamburgerActive,   \* .hamburger has class 'active'
    menuScrollTo,      \* Just(top) of the latest window.scrollTo request
    menuLastClick,     \* history: Just(target) of the latest click
    \* ---- TabController of one container ----
    tabButtons,        \* the buttons: [dataTab, dataExample] attributes
    tabContents,       \* the panels: their id attributes
    tabButtonActive,   \* button index -> has class 'active'
    tabContentActive,  \* panel index -> has class 'active'
    tabLastButton      \* history: Just(index) of the button clicked last

animVars   == <<dataTarget, sumsLow, classList, animatedElements, enteredCount,
                counterRuns, rendered>>
chatVars   == <<isAnimating, currentMessageIndex, messageContainer, timelines,
                sinceTyped, reentrySeen>>
formVars   == <<fieldValue, fieldError, submitDisabled, loadingDisplay,
                labelDisplay, apiCalls, banners, staleTimers, lastSubmit>>
scrollVars == <<scrollY, scrollHeight, innerHeight, progressWritten,
                progressWidth, inThrottle, throttleTimer>>
navVars    == <<navSections, navHrefs, navActive, navLastPos, navMarkup,
                navInThrottle,
                navThrottleTimer>>
\* The components added after the first four.
valVars    == <<vName, vValue, vError, vResult>>
debVars    == <<debTimers, debTimeout, debLog, debLastArgs, debSince,
                debExecs>>
tipVars    == <<tipCreated, tipHandle, tipHover, tipTimers>>
menuVars   == <<menuActive, hamburgerActive, menuScrollTo, menuLastClick>>
tabVars    == <<tabButtons, tabContents, tabButtonActive, tabContentActive,
                tabLastButton>>
moreVars   == <<navVars, valVars, debVars, tipVars, menuVars, tabVars>>
\* What a step of each later component leaves alone besides the first four.
navOthers  == <<valVars, debVars, tipVars, menuVars, tabVars>>
valOthers  == <<navVars, debVars, tipVars, menuVars, tabVars>>
debOthers  == <<navVars, valVars, tipVars, menuVars, tabVars>>
tipOthers  == <<navVars, valVars, debVars, menuVars, tabVars>>
menuOthers == <<navVars, valVars, debVars, tipVars, tabVars>>
tabOthers  == <<navVars, valVars, debVars, tipVars, menuVars>>
vars       == <<animVars, chatVars, formVars, scrollVars, moreVars>>

\* ---- generic helpers ----
Min(a, b) == IF a <= b THEN a ELSE b

Range(s) == {s[i] : i \in 1..Len(s)}

RECURSIVE Gcd(_, _)
Gcd(a, b) == IF b = 0 THEN a ELSE Gcd(b, a % b)

SeqsUpTo(S, n) == UNION {[1..k -> S] : k \in 1..n}

\* Optional values: Nothing, or Just(x).
Nothing == <<>>

Just(x) == <<x>>

(***************************************************************************)
(* AnimationObserver (script.js 28-77)                                     *)
(***************************************************************************)

\* Bounds of the model.
MaxTarget == 4
MaxBatch  == 2

\* Observed elements: two [data-aos] blocks and one counter element.
Elements == {"hero", "card", "stat"}

CounterClasses == {"analytics-number", "stat-number"}

\* data-target values: absent, negative, small, and around the frame count.
DataTargets ==
    {Nothing} \cup {Just(t) : t \in (-1..MaxTarget) \cup {124, 125, 126, 250, 1000}}

\* const duration = 2000; increment = target / (duration / 16)
duration == 2000

frameMs == 16

\* duration / 16 = 125 exactly, so `current` is kept as current * 125.
frames == duration \div frameMs

\* Math.floor of n / d for d > 0.
Floor(n, d) == IF n >= 0 THEN n \div d ELSE -((-n + d - 1) \div d)

\* current < target, for the exact sum cur (x 125) of a closure.  target / 125
\* is rounded to a double and so are its sums: when low is set a sum whose
\* exact value is a whole number is held just below it, so the loop may need a
\* 126th frame.
isBelow(cur, target, low) ==
    \/ cur < target * frames
    \/ low /\ target > 0 /\ cur = target * frames

\* Math.floor(current) under the same rounding.
floorOf(cur, target, low) ==
    IF low /\ target > 0 /\ cur % frames = 0
    THEN cur \div frames - 1 ELSE Floor(cur, frames)

\* parseInt(element.getAttribute('data-target')) || 0
parseTarget(attr) == IF attr = Nothing THEN 0 ELSE attr[1]

\* updateCounter without the final snap to the target.
updateCounterNoSnap(s, r) ==
    LET cur == r.current + r.target
    IN  IF isBelow(cur, r.target, r.low)
        THEN [s EXCEPT
                !.rendered[r.el] = Append(@, floorOf(cur, r.target, r.low)),
                !.runs = Append(@, [r EXCEPT !.current = cur])]
        ELSE s

\* One call of the updateCounter closure r on the state s.
updateCounter(s, r) ==
    LET cur == r.current + r.target      \* current += increment (x 125)
    IN  IF isBelow(cur, r.target, r.low)
        THEN [s EXCEPT
                !.rendered[r.el] = Append(@, floorOf(cur, r.target, r.low)),
                !.runs = Append(@, [r EXCEPT !.current = cur])]
        ELSE [s EXCEPT !.rendered[r.el] = Append(@, r.target)]

\* animateCounter with the first increment lost.
animateCounterLate(s, el) ==
    updateCounter(s, [el |-> el, target |-> parseTarget(dataTarget),
                      current |-> 0 - parseTarget(dataTarget),
                      low |-> sumsLow])

\* animateCounter(element): build the closure and call updateCounter() once.
animateCounter(s, el) ==
    updateCounter(s, [el |-> el, target |-> parseTarget(dataTarget),
                      current |-> 0, low |-> sumsLow])

\* The forEach body without the animatedElements.has test.
handleEntryNoHasTest(s, entry) ==
    IF entry.isIntersecting
    THEN LET s1 == [s EXCEPT
                      !.classes[entry.target] = @ \cup {"aos-animate"},
                      !.animated = @ \cup {entry.target},
                      !.entered[entry.target] = @ + 1]
         IN  IF s1.classes[entry.target] \cap CounterClasses # {}
             THEN animateCounter(s1, entry.target)
             ELSE s1
    ELSE s

\* The body of entries.forEach for one entry.
handleEntry(s, entry) ==
    IF entry.isIntersecting /\ entry.target \notin s.animated
    THEN LET s1 == [s EXCEPT
                      !.classes[entry.target] = @ \cup {"aos-animate"},
                      !.animated = @ \cup {entry.target},
                      !.entered[entry.target] = @ + 1]
         IN  IF s1.classes[entry.target] \cap CounterClasses # {}
             THEN animateCounter(s1, entry.target)
             ELSE s1
    ELSE s

RECURSIVE forEachEntry(_, _)
forEachEntry(s, entries) ==
    IF entries = <<>> THEN s
    ELSE forEachEntry(handleEntry(s, Head(entries)), Tail(entries))

AnimState == [classes |-> classList, animated |-> animatedElements,
              entered |-> enteredCount, runs |-> counterRuns,
              rendered |-> rendered]

SetAnimState(s) ==
    /\ classList' = s.classes
    /\ animatedElements' = s.animated
    /\ enteredCount' = s.entered
    /\ counterRuns' = s.runs
    /\ rendered' = s.rendered
    /\ UNCHANGED <<dataTarget, sumsLow>>

Entries == [target : Elements, isIntersecting : BOOLEAN]

\* The IntersectionObserver callback with one batch of entries.
handleIntersection(entries) ==
    SetAnimState(forEachEntry(AnimState, entries))

RECURSIVE runFrame(_, _)
runFrame(s, pending) ==
    IF pending = <<>> THEN s
    ELSE runFrame(updateCounter(s, Head(pending)), Tail(pending))

\* One animation frame: every updateCounter queued by requestAnimationFrame
\* runs, in the order queued; a callback that re-queues itself runs next frame.
AnimationFrame ==
    /\ counterRuns # <<>>
    /\ SetAnimState(runFrame([AnimState EXCEPT !.runs = <<>>], counterRuns))

InitAnim ==
    /\ dataTarget \in DataTargets
    /\ sumsLow \in BOOLEAN
    /\ \E c \in CounterClasses :
          classList = [e \in Elements |-> IF e = "stat" THEN {c} ELSE {}]
    /\ animatedElements = {}
    /\ enteredCount = [e \in Elements |-> 0]
    /\ counterRuns = <<>>
    /\ rendered = [e \in Elements |-> <<>>]

IntersectionCallback ==
    \E entries \in SeqsUpTo(Entries, MaxBatch) : handleIntersection(entries)

NextAnim ==
    \/ IntersectionCallback /\ UNCHANGED <<chatVars, formVars, scrollVars, moreVars>>
    \/ AnimationFrame /\ UNCHANGED <<chatVars, formVars, scrollVars, moreVars>>

(***************************************************************************)
(* TelegramAnimator (script.js 440-525)                                    *)
(***************************************************************************)

\* this.messages; each text is its sequence of UTF-16 code units, the units
\* that text.length counts and text[charIndex] reads.
messages == <<
    [type |-> "bot", text |-> <<1044, 1086, 1073, 1088, 1086, 32, 1087, 1086,
        1078, 1072, 1083, 1086, 1074, 1072, 1090, 1100, 32, 1074, 32, 72, 101,
        114, 109, 101, 115, 84, 101, 97, 109, 33, 32, 55357, 56395>>],
    [type |-> "user", text |-> <<47, 115, 116, 97, 116, 117, 115, 32, 1087,
        1088, 1086, 1077, 1082, 1090, 45, 1040>>],
    [type |-> "bot", text |-> <<1055, 1088, 1086, 1077, 1082, 1090, 32, 1040,
        58, 32, 55, 53, 37, 32, 1074, 1099, 1087, 1086, 1083, 1085, 1077, 1085,
        1086, 32, 9989, 10, 51, 32, 1072, 1082, 1090, 1080, 1074, 1085, 1099,
        1077, 32, 1079, 1072, 1076, 1072, 1095, 1080>>],
    [type |-> "user", text |-> <<47, 99, 114, 101, 97, 116, 101, 32, 1079,
        1072, 1076, 1072, 1095, 1072, 32, 34, 1055, 1086, 1076, 1075, 1086,
        1090, 1086, 1074, 1080, 1090, 1100, 32, 1086, 1090, 1095, 1077, 1090,
        34>>],
    [type |-> "bot", text |-> <<1047, 1072, 1076, 1072, 1095, 1072, 32, 1089,
        1086, 1079, 1076, 1072, 1085, 1072, 32, 1080, 32, 1085, 1072, 1079,
        1085, 1072, 1095, 1077, 1085, 1072, 33, 32, 55357, 56523>>] >>

\* setInterval(..., 50) in typeText
typeIntervalMs == 50

\* setTimeout(resolve, 1500) between messages
messageDelayMs == 1500

\* setTimeout(..., 5000) before the restart
restartDelayMs == 5000

\* Time is observed on the grid on which the chat timers can expire.
ChatQuantum == Gcd(typeIntervalMs, Gcd(messageDelayMs, restartDelayMs))

\* The state the chat operators transform.
ChatState == [animating |-> isAnimating, index |-> currentMessageIndex,
              container |-> messageContainer, tls |-> timelines,
              since |-> sinceTyped, reentry |-> reentrySeen]

SetChatState(s) ==
    /\ isAnimating' = s.animating
    /\ currentMessageIndex' = s.index
    /\ messageContainer' = s.container
    /\ timelines' = s.tls
    /\ sinceTyped' = s.since
    /\ reentrySeen' = s.reentry

\* typeText starting its interval at the second character.
typeTextSkipFirst(s, r, pos, text) ==
    [s EXCEPT
        !.container[pos].opacity = "1",
        !.tls = Append(@, [r EXCEPT !.pc = "typing", !.timer = typeIntervalMs,
                                    !.text = text, !.currentText = <<>>,
                                    !.charIndex = 1, !.pos = pos])]

\* typeText(element, text): show the element and start the typing interval.
\* The run r waits on the interval; pos is the element's place in the
\* container (0 once it has been detached by innerHTML = '').
typeText(s, r, pos, text) ==
    [s EXCEPT
        !.container[pos].opacity = "1",
        !.tls = Append(@, [r EXCEPT !.pc = "typing", !.timer = typeIntervalMs,
                                    !.text = text, !.currentText = <<>>,
                                    !.charIndex = 0, !.pos = pos])]

\* addMessage(messageData) up to its await: create and append the container.
\* msg is the script index of messageData (kept for the properties).
addMessage(s, r, msg) ==
    LET messageElement == [type |-> messages[msg + 1].type, msg |-> msg,
                           textContent |-> <<>>, opacity |-> "0"]
        s1 == [s EXCEPT !.container = Append(@, messageElement),
                        !.since = Nothing]
    IN  typeText(s1, r, Len(s1.container), messages[msg + 1].text)

\* The for loop of startAnimation without the restart timer after it.
loopFromNoRestart(s, r, i) ==
    IF i < Len(messages)
    THEN addMessage(s, [r EXCEPT !.i = i], i)
    ELSE s

\* The for loop of startAnimation at index i: next message, or the restart
\* timer when the script is exhausted.
loopFrom(s, r, i) ==
    IF i < Len(messages)
    THEN addMessage(s, [r EXCEPT !.i = i], i)
    ELSE [s EXCEPT !.tls = Append(@, [r EXCEPT !.pc = "cooldown", !.i = i,
                                               !.timer = restartDelayMs])]

\* startAnimation without the innerHTML reset.
clearContainerKeep(s) == s

\* this.messageContainer.innerHTML = '': every child is detached.
clearContainer(s) ==
    [s EXCEPT !.container = <<>>,
              !.tls = [k \in 1..Len(@) |-> [@[k] EXCEPT !.pos = 0]]]

\* startAnimation() up to its first await; restarted tells whether the call
\* came from the restart timer (kept for the properties).
startAnimation(s, restarted) ==
    LET s1 == [clearContainer([s EXCEPT !.animating = TRUE])
                  EXCEPT !.index = 0]
        r  == [pc |-> "start", i |-> 0, timer |-> 0, text |-> <<>>,
               currentText |-> <<>>, charIndex |-> 0, pos |-> 0,
               restarted |-> restarted]
    IN  loopFrom(s1, r, 0)

\* The callback's test without the isAnimating guard.
shouldStartNoGuard(entry, animating) == entry.isIntersecting

\* The test of the chat observer's callback.
shouldStart(entry, animating) == entry.isIntersecting /\ ~animating

RECURSIVE forEachChatEntry(_, _)
forEachChatEntry(s, entries) ==
    IF entries = <<>> THEN s
    ELSE LET entry == Head(entries)
             s1 == IF shouldStart(entry, s.animating)
                   THEN startAnimation(s, FALSE)
                   ELSE IF entry.isIntersecting
                        THEN [s EXCEPT !.reentry =
                                @ \cup {s.tls[k].pc : k \in 1..Len(s.tls)}]
                        ELSE s
         IN  forEachChatEntry(s1, Tail(entries))

ChatEntries == [isIntersecting : BOOLEAN]

\* The IntersectionObserver callback of init(), threshold 0.5, one target.
ChatIntersection ==
    \E entries \in SeqsUpTo(ChatEntries, MaxBatch) :
        SetChatState(forEachChatEntry(ChatState, entries))

\* The run resumes after typeText without awaiting the 1500 timeout.
awaitDelayMissing(r) == [r EXCEPT !.pc = "delay", !.timer = 0]

\* await new Promise(resolve => setTimeout(resolve, 1500))
awaitDelay(r) == [r EXCEPT !.pc = "delay", !.timer = messageDelayMs]

RemoveAt(seq, k) == SubSeq(seq, 1, k - 1) \o SubSeq(seq, k + 1, Len(seq))

\* One firing of the typing interval of run k.
TypeTick(k) ==
    /\ k \in 1..Len(timelines)
    /\ timelines[k].pc = "typing"
    /\ timelines[k].timer = 0
    /\ LET r == timelines[k]
           rest == [ChatState EXCEPT !.tls = RemoveAt(@, k)]
       IN  IF r.charIndex < Len(r.text)
           THEN LET cur == Append(r.currentText, r.text[r.charIndex + 1])
                    r1 == [r EXCEPT !.currentText = cur,
                                    !.charIndex = @ + 1,
                                    !.timer = typeIntervalMs]
                    s1 == IF r.pos = 0 THEN rest
                          ELSE [rest EXCEPT
                                  !.container[r.pos].textContent = cur]
                    full == /\ r.pos # 0
                            /\ r.pos = Len(s1.container)
                            /\ cur = r.text
                IN  SetChatState([s1 EXCEPT
                        !.tls = Append(@, r1),
                        !.since = IF full THEN Just(0) ELSE @])
           ELSE \* clearInterval; resolve(): addMessage and startAnimation
                \* resume and wait for the inter-message timeout.
                SetChatState([rest EXCEPT !.tls = Append(@, awaitDelay(r))])

\* The inter-message timeout of run k fires: next loop iteration.
DelayFire(k) ==
    /\ k \in 1..Len(timelines)
    /\ timelines[k].pc = "delay"
    /\ timelines[k].timer = 0
    /\ LET r == timelines[k]
           rest == [ChatState EXCEPT !.tls = RemoveAt(@, k)]
       IN  SetChatState(loopFrom(rest, r, r.i + 1))

\* The restart timeout fires: isAnimating = false; startAnimation().
RestartFire(k) ==
    /\ k \in 1..Len(timelines)
    /\ timelines[k].pc = "cooldown"
    /\ timelines[k].timer = 0
    /\ LET rest == [ChatState EXCEPT !.tls = RemoveAt(@, k),
                                     !.animating = FALSE]
       IN  SetChatState(startAnimation(rest, TRUE))

MinTimer(seq) ==
    CHOOSE m \in {seq[k].timer : k \in 1..Len(seq)} :
        \A k \in 1..Len(seq) : m <= seq[k].timer

\* Time passes, never beyond the earliest pending chat timer.
ChatAdvance ==
    /\ timelines # <<>>
    /\ MinTimer(timelines) > 0
    /\ LET d == Min(ChatQuantum, MinTimer(timelines))
       IN  /\ timelines' = [k \in 1..Len(timelines) |->
                               [timelines[k] EXCEPT !.timer = @ - d]]
           /\ sinceTyped' = IF sinceTyped = Nothing THEN Nothing
                            ELSE Just(sinceTyped[1] + d)
    /\ UNCHANGED <<isAnimating, currentMessageIndex, messageContainer,
                   reentrySeen>>

InitChat ==
    /\ isAnimating = FALSE
    /\ currentMessageIndex = 0
    /\ messageContainer = <<>>
    /\ timelines = <<>>
    /\ sinceTyped = Nothing
    /\ reentrySeen = {}

NextChat ==
    \/ ChatIntersection /\ UNCHANGED <<animVars, formVars, scrollVars, moreVars>>
    \/ \E k \in 1..Len(timelines) :
          TypeTick(k) /\ UNCHANGED <<animVars, formVars, scrollVars, moreVars>>
    \/ \E k \in 1..Len(timelines) :
          DelayFire(k) /\ UNCHANGED <<animVars, formVars, scrollVars, moreVars>>
    \/ \E k \in 1..Len(timelines) :
          RestartFire(k) /\ UNCHANGED <<animVars, formVars, scrollVars, moreVars>>
    \/ ChatAdvance /\ UNCHANGED <<animVars, formVars, scrollVars, moreVars>>

\* typeText on its own: one call with an arbitrary text on a fresh element.
MaxTextLen == 3

\* UTF-16 code units: a letter, a Cyrillic letter, half of a surrogate pair.
TypeChars == {97, 1086, 55357}

TypeTexts == {<<>>} \cup SeqsUpTo(TypeChars, MaxTextLen)

InitType ==
    /\ \E text \in TypeTexts :
          LET messageElement == [type |-> "bot", msg |-> 0,
                                 textContent |-> <<>>, opacity |-> "0"]
              r  == [pc |-> "start", i |-> 0, timer |-> 0, text |-> <<>>,
                     currentText |-> <<>>, charIndex |-> 0, pos |-> 0,
                     restarted |-> FALSE]
              s0 == [animating |-> TRUE, index |-> 0,
                     container |-> <<messageElement>>, tls |-> <<>>,
                     since |-> Nothing, reentry |-> {}]
              s1 == typeText(s0, r, 1, text)
          IN  /\ isAnimating = s1.animating
              /\ currentMessageIndex = s1.index
              /\ messageContainer = s1.container
              /\ timelines = s1.tls
              /\ sinceTyped = s1.since
              /\ reentrySeen = s1.reentry

\* The interval and the clock only: what follows the promise is left out.
NextType ==
    \/ TypeTick(1) /\ timelines[1].pc = "typing"
          /\ UNCHANGED <<animVars, formVars, scrollVars, moreVars>>
    \/ ChatAdvance /\ timelines[1].pc = "typing"
          /\ UNCHANGED <<animVars, formVars, scrollVars, moreVars>>

(***************************************************************************)
(* FormController (script.js 216-375)                                      *)
(***************************************************************************)

\* The controls of the modelled form in document order, by name attribute:
\* a text input, an e-mail input, a select and a free-text area.  A
\* 'company' input would follow the rule of 'name'.
FormFields == <<"name", "email", "team-size", "message">>

FieldNames == Range(FormFields)

\* The controls matched by 'input[required], select[required]'.
RequiredFields == <<"name", "email", "team-size">>

\* Values are sequences of characters; " " stands for any whitespace.
Str(name) ==
    CASE name = "empty" -> <<>>
      [] name = "a"     -> <<"a">>
      [] name = "a_"    -> <<"a", " ">>
      [] name = "ab"    -> <<"a", "b">>
      [] name = "a@b"   -> <<"a", "@", "b">>
      [] name = "a@b.c" -> <<"a", "@", "b", ".", "c">>

\* The value a control has after form.reset().
DefaultValue(f) == <<>>

\* What the user can type or select in each control.
FieldInputs(f) ==
    {DefaultValue(f)} \cup
    CASE f = "name"      -> {Str("a_"), Str("ab")}
      [] f = "email"     -> {Str("empty"), Str("a@b"), Str("a@b.c")}
      [] f = "team-size" -> {Str("empty"), Str("a")}
      [] f = "message"   -> {Str("empty"), Str("a")}

IsSpace(c) == c = " "

\* String.prototype.trim
RECURSIVE trimStart(_)
trimStart(v) ==
    IF v # <<>> /\ IsSpace(Head(v)) THEN trimStart(Tail(v)) ELSE v

RECURSIVE trimEnd(_)
trimEnd(v) ==
    IF v # <<>> /\ IsSpace(v[Len(v)])
    THEN trimEnd(SubSeq(v, 1, Len(v) - 1)) ELSE v

trim(v) == trimEnd(trimStart(v))

\* [^\s@]+ : a non-empty run without whitespace or '@'.
IsPart(v) ==
    /\ v # <<>>
    /\ \A i \in 1..Len(v) : ~IsSpace(v[i]) /\ v[i] # "@"

\* /^[^\s@]+@[^\s@]+\.[^\s@]+$/.test(v)
emailRegexTest(v) ==
    \E i \in 1..Len(v) : \E j \in 1..Len(v) :
        /\ i < j
        /\ v[i] = "@"
        /\ v[j] = "."
        /\ IsPart(SubSeq(v, 1, i - 1))
        /\ IsPart(SubSeq(v, i + 1, j - 1))
        /\ IsPart(SubSeq(v, j + 1, Len(v)))

\* The switch of validateField on the value as typed.
isValidUntrimmed(fieldName, raw) ==
    LET value == raw
    IN  CASE fieldName = "name"      -> Len(value) >= 2
          [] fieldName = "email"     -> emailRegexTest(value)
          [] fieldName = "company"   -> Len(value) >= 2
          [] fieldName = "team-size" -> value # <<>>
          [] OTHER                   -> TRUE

\* The switch of validateField on the trimmed value.
isValid(fieldName, raw) ==
    LET value == trim(raw)
    IN  CASE fieldName = "name"      -> Len(value) >= 2
          [] fieldName = "email"     -> emailRegexTest(value)
          [] fieldName = "company"   -> Len(value) >= 2
          [] fieldName = "team-size" -> value # <<>>
          [] OTHER                   -> TRUE

\* The state the form operators transform; log lists the banners shown by
\* the handler in progress (kept for the properties).
FormState == [value |-> fieldValue, error |-> fieldError,
              disabled |-> submitDisabled, loading |-> loadingDisplay,
              label |-> labelDisplay, calls |-> apiCalls,
              banners |-> banners, stale |-> staleTimers, log |-> <<>>]

\* validateField(field): restyle the field; the result is isValid.
validateField(s, f) ==
    [s EXCEPT !.error[f] = ~isValid(f, s.value[f])]

RECURSIVE validateAll(_, _)
validateAll(s, fields) ==
    IF fields = <<>> THEN s
    ELSE validateAll(validateField(s, Head(fields)), Tail(fields))

\* isFormValid after inputs.forEach(...)
isFormValid(s, fields) == \A f \in Range(fields) : isValid(f, s.value[f])

\* setLoadingState that shows the indicator but leaves the button enabled.
setLoadingStateNoDisable(s, isLoading) ==
    IF isLoading
    THEN [s EXCEPT !.loading = "inline", !.label = "none"]
    ELSE [s EXCEPT !.disabled = FALSE, !.loading = "none",
                   !.label = "inline"]

\* setLoadingState(isLoading)
setLoadingState(s, isLoading) ==
    IF isLoading
    THEN [s EXCEPT !.disabled = TRUE, !.loading = "inline", !.label = "none"]
    ELSE [s EXCEPT !.disabled = FALSE, !.loading = "none",
                   !.label = "inline"]

\* setTimeout(() => div.remove(), 5000)
bannerMs == 5000

\* setTimeout(resolve, 2000) in simulateApiCall
apiDelayMs == 2000

\* Time is observed on the grid on which the form timers can expire.
FormQuantum == Gcd(bannerMs, apiDelayMs)

\* removeMessages() that finds no banner to detach.
removeMessagesKeep(s) == s

\* removeMessages(): detach every banner; their removal timers stay pending.
removeMessages(s) ==
    [s EXCEPT !.banners = <<>>,
              !.stale = @ \cup {s.banners[k].timer : k \in 1..Len(s.banners)}]

\* showSuccess / showError with a removal timer one time step too long.
showBannerLate(s, class) ==
    LET s1 == removeMessages(s)
    IN  [s1 EXCEPT !.banners = Append(@, [class |-> class,
                                          timer |-> bannerMs + FormQuantum]),
                   !.log = Append(@, class)]

\* The common body of showSuccess / showError for a div of the given class.
showBanner(s, class) ==
    LET s1 == removeMessages(s)
    IN  [s1 EXCEPT !.banners = Append(@, [class |-> class,
                                          timer |-> bannerMs]),
                   !.log = Append(@, class)]

showSuccess(s) == showBanner(s, "success-message")

showError(s) == showBanner(s, "error-message")

\* this.form.reset()
resetForm(s) == [s EXCEPT !.value = [f \in FieldNames |-> DefaultValue(f)]]

SetFormState(s) ==
    /\ fieldValue' = s.value
    /\ fieldError' = s.error
    /\ submitDisabled' = s.disabled
    /\ loadingDisplay' = s.loading
    /\ labelDisplay' = s.label
    /\ apiCalls' = s.calls
    /\ banners' = s.banners
    /\ staleTimers' = s.stale

\* handleSubmit without the return after the form-level error.
handleSubmitNoReturn(s) ==
    LET s1 == validateAll(s, RequiredFields)
        s2 == IF ~isFormValid(s, RequiredFields) THEN showError(s1) ELSE s1
    IN  [setLoadingState(s2, TRUE)
            EXCEPT !.calls = Append(@, [timer |-> apiDelayMs])]

\* handleSubmit() up to its await.
handleSubmit(s) ==
    LET s1 == validateAll(s, RequiredFields)
    IN  IF ~isFormValid(s, RequiredFields)
        THEN showError(s1)
        ELSE [setLoadingState(s1, TRUE)
                 EXCEPT !.calls = Append(@, [timer |-> apiDelayMs])]

\* The continuation with the loading state cleared in the try block only.
afterApiCallNoFinally(s, resolved) ==
    IF resolved THEN setLoadingState(resetForm(showSuccess(s)), FALSE)
    ELSE showError(s)

\* handleSubmit() after the await: try / catch / finally.
afterApiCall(s, resolved) ==
    LET s1 == IF resolved THEN resetForm(showSuccess(s)) ELSE showError(s)
    IN  setLoadingState(s1, FALSE)

\* The submit event of the form.  The browser dispatches it from a click on
\* the submit button or from implicit submission, neither of which happens
\* while the submit button is disabled.
SubmitEvent ==
    /\ ~submitDisabled
    /\ LET s == handleSubmit(FormState)
       IN  /\ SetFormState(s)
           /\ lastSubmit' = [calls |-> 1 - lastSubmit.calls,
                             outcome |-> IF Len(s.calls) > Len(apiCalls)
                                         THEN "pending" ELSE "invalid",
                             shown |-> s.log]

\* The timer of pending simulateApiCall k fires; Math.random() decides
\* whether the call resolves or throws, and handleSubmit runs to its end.
ApiTimerFire(k, resolved) ==
    /\ k \in 1..Len(apiCalls)
    /\ apiCalls[k].timer = 0
    /\ LET s == afterApiCall([FormState EXCEPT !.calls = RemoveAt(@, k)],
                             resolved)
       IN  /\ SetFormState(s)
           /\ lastSubmit' = [lastSubmit EXCEPT
                               !.outcome = IF resolved THEN "ok" ELSE "failed",
                               !.shown = s.log]

\* The user edits control f.
InputEvent(f, v) ==
    /\ fieldValue[f] # v
    /\ fieldValue' = [fieldValue EXCEPT ![f] = v]
    /\ UNCHANGED <<fieldError, submitDisabled, loadingDisplay, labelDisplay,
                   apiCalls, banners, staleTimers, lastSubmit>>

\* blur on control f: validateField(input).
BlurEvent(f) ==
    /\ SetFormState(validateField(FormState, f))
    /\ UNCHANGED lastSubmit

\* The removal timer of attached banner k fires: div.remove().
BannerTimerFire(k) ==
    /\ k \in 1..Len(banners)
    /\ banners[k].timer = 0
    /\ banners' = RemoveAt(banners, k)
    /\ UNCHANGED <<fieldValue, fieldError, submitDisabled, loadingDisplay,
                   labelDisplay, apiCalls, staleTimers, lastSubmit>>

\* The removal timer of an already detached banner fires: remove() of a
\* detached div changes nothing.
StaleTimerFire ==
    /\ 0 \in staleTimers
    /\ staleTimers' = staleTimers \ {0}
    /\ UNCHANGED <<fieldValue, fieldError, submitDisabled, loadingDisplay,
                   labelDisplay, apiCalls, banners, lastSubmit>>

FormTimers ==
    {apiCalls[k].timer : k \in 1..Len(apiCalls)}
        \cup {banners[k].timer : k \in 1..Len(banners)} \cup staleTimers

SetMin(S) == CHOOSE m \in S : \A x \in S : m <= x

\* Time passes, never beyond the earliest pending form timer.
FormAdvance ==
    /\ FormTimers # {}
    /\ 0 \notin FormTimers
    /\ LET d == Min(FormQuantum, SetMin(FormTimers))
       IN  /\ apiCalls' = [k \in 1..Len(apiCalls) |->
                              [apiCalls[k] EXCEPT !.timer = @ - d]]
           /\ banners' = [k \in 1..Len(banners) |->
                             [banners[k] EXCEPT !.timer = @ - d]]
           /\ staleTimers' = {t - d : t \in staleTimers}
    /\ UNCHANGED <<fieldValue, fieldError, submitDisabled, loadingDisplay,
                   labelDisplay, lastSubmit>>

InitForm ==
    /\ fieldValue = [f \in FieldNames |-> DefaultValue(f)]
    /\ fieldError = [f \in FieldNames |-> FALSE]
    /\ submitDisabled = FALSE
    /\ loadingDisplay = "none"
    /\ labelDisplay = "inline"
    /\ apiCalls = <<>>
    /\ banners = <<>>
    /\ staleTimers = {}
    /\ lastSubmit = [calls |-> 0, outcome |-> "none", shown |-> <<>>]

NextForm ==
    \/ SubmitEvent /\ UNCHANGED <<animVars, chatVars, scrollVars, moreVars>>
    \/ \E k \in 1..Len(apiCalls) : \E resolved \in BOOLEAN :
          ApiTimerFire(k, resolved)
              /\ UNCHANGED <<animVars, chatVars, scrollVars, moreVars>>
    \/ \E f \in FieldNames : \E v \in FieldInputs(f) :
          InputEvent(f, v) /\ UNCHANGED <<animVars, chatVars, scrollVars, moreVars>>
    \/ \E f \in FieldNames :
          BlurEvent(f) /\ UNCHANGED <<animVars, chatVars, scrollVars, moreVars>>
    \/ \E k \in 1..Len(banners) :
          BannerTimerFire(k) /\ UNCHANGED <<animVars, chatVars, scrollVars, moreVars>>
    \/ StaleTimerFire /\ UNCHANGED <<animVars, chatVars, scrollVars, moreVars>>
    \/ FormAdvance /\ UNCHANGED <<animVars, chatVars, scrollVars, moreVars>>

(***************************************************************************)
(* Scroll progress bar (script.js 753-772) behind throttle (14-25)         *)
(***************************************************************************)

\* Bounds of the scroll model: the viewport height, the largest scrollable
\* range, and how far the browser lets scrollY overshoot either end.
ViewportHeight == 2
MaxScrollRange == 4
Overscroll     == 1

\* throttle(..., 16)
throttleLimitMs == 16

\* Time is observed in quarters of the throttle window.
ScrollQuantum == throttleLimitMs \div 4

Abs(n) == IF n < 0 THEN -n ELSE n

\* The JavaScript number n / d (d > 0) in lowest terms.
Num(n, d) ==
    LET g == Gcd(Abs(n), d)
    IN  [kind |-> "num", n |-> n \div g, d |-> d \div g]

NaN == [kind |-> "NaN", n |-> 0, d |-> 1]

Infinity == [kind |-> "Infinity", n |-> 0, d |-> 1]

NegInfinity == [kind |-> "-Infinity", n |-> 0, d |-> 1]

\* (scrolled / maxScroll) * 100 for integers scrolled and maxScroll.
progressOf(scrolled, maxScroll) ==
    IF maxScroll = 0
    THEN IF scrolled = 0 THEN NaN
         ELSE IF scrolled > 0 THEN Infinity ELSE NegInfinity
    ELSE IF maxScroll > 0 THEN Num(100 * scrolled, maxScroll)
         ELSE Num(-(100 * scrolled), -maxScroll)

\* Math.min(x, limit) for an integer limit.
mathMin(x, limit) ==
    CASE x.kind = "NaN"       -> NaN
      [] x.kind = "Infinity"  -> Num(limit, 1)
      [] x.kind = "-Infinity" -> NegInfinity
      [] OTHER                -> IF x.n <= limit * x.d THEN x
                                 ELSE Num(limit, 1)

\* The value the handler assigns to progressBar.style.width, without '%'.
progressValue(scrolled, maxScroll) ==
    mathMin(progressOf(scrolled, maxScroll), 100)

\* Assigning style.width: a declaration that is not a non-negative
\* percentage does not parse and leaves the old width in place.
setWidth(old, x) == IF x.kind = "num" /\ x.n >= 0 THEN x ELSE old

\* The scroll listener of the progress bar.
progressHandler ==
    LET scrolled  == scrollY'
        maxScroll == scrollHeight - innerHeight
        x == progressValue(scrolled, maxScroll)
    IN  /\ progressWritten' = Just(x)
        /\ progressWidth' = setWidth(progressWidth, x)

\* A wrapper that never looks at inThrottle.
throttleOpenAlways(flag) == TRUE

\* Whether the throttled wrapper lets a call through.
throttleOpen(flag) == ~flag

\* A scroll event at position y goes through the throttled wrapper.
ScrollEvent(y) ==
    /\ scrollY' = y
    /\ IF throttleOpen(inThrottle)
       THEN /\ progressHandler
            /\ inThrottle' = TRUE
            /\ throttleTimer' = Just(throttleLimitMs)
       ELSE UNCHANGED <<progressWritten, progressWidth, inThrottle,
                        throttleTimer>>
    /\ UNCHANGED <<scrollHeight, innerHeight>>

\* setTimeout(() => inThrottle = false, limit) fires.
ThrottleTimerFire ==
    /\ throttleTimer = Just(0)
    /\ inThrottle' = FALSE
    /\ throttleTimer' = Nothing
    /\ UNCHANGED <<scrollY, scrollHeight, innerHeight, progressWritten,
                   progressWidth>>

ScrollAdvance ==
    /\ throttleTimer # Nothing
    /\ throttleTimer[1] > 0
    /\ throttleTimer' =
          Just(throttleTimer[1] - Min(ScrollQuantum, throttleTimer[1]))
    /\ UNCHANGED <<scrollY, scrollHeight, innerHeight, progressWritten,
                   progressWidth, inThrottle>>

ScrollPositions ==
    (0 - Overscroll)..((scrollHeight - innerHeight) + Overscroll)

InitScroll ==
    /\ scrollY = 0
    /\ innerHeight = ViewportHeight
    /\ scrollHeight \in ViewportHeight..(ViewportHeight + MaxScrollRange)
    /\ progressWritten = Nothing
    /\ progressWidth = Num(0, 1)          \* cssText: width: 0%
    /\ inThrottle = FALSE
    /\ throttleTimer = Nothing

NextScroll ==
    \/ \E y \in ScrollPositions :
          ScrollEvent(y) /\ UNCHANGED <<animVars, chatVars, formVars, moreVars>>
    \/ ThrottleTimerFire /\ UNCHANGED <<animVars, chatVars, formVars, moreVars>>
    \/ ScrollAdvance /\ UNCHANGED <<animVars, chatVars, formVars, moreVars>>

(***************************************************************************)
(* validateField on its own (script.js 242-272)                            *)
(***************************************************************************)

MaxValueLen == 5

ValueChars == {"a", "@", ".", " "}

\* Field values: every short string over ValueChars and the addresses of
\* spec.md, bare and padded.
FieldValues ==
    {<<>>} \cup SeqsUpTo(ValueChars, MaxValueLen) \cup
    { <<"a", "@", "b", ".", "c", "o", "m">>,
      <<" ", "a", "@", "b", ".", "c", "o", "m", " ">>,
      <<"a", "@", "b", "@", "c", ".", "c", "o", "m">>,
      <<"a", " ", "b", "@", "c", ".", "c", "o", "m">> }

\* name attributes: the four of the switch and one it has no case for.
ValidatedNames == {"name", "email", "company", "team-size", "message"}

InitValidate ==
    /\ vName \in ValidatedNames
    /\ vValue \in FieldValues
    /\ vError \in BOOLEAN
    /\ vResult = Nothing

\* validateField(field) on the field <<vName, vValue>>.
ValidateCall ==
    LET s  == [value |-> [f \in {vName} |-> vValue],
               error |-> [f \in {vName} |-> vError]]
        s1 == validateField(s, vName)
    IN  /\ vError' = s1.error[vName]
        /\ vResult' = Just(isValid(vName, vValue))
        /\ UNCHANGED <<vName, vValue>>

NextValidate ==
    ValidateCall
        /\ UNCHANGED <<animVars, chatVars, formVars, scrollVars, valOthers>>

(***************************************************************************)
(* debounce (script.js 2-12) around drawChart (script.js 389-397)          *)
(***************************************************************************)

\* Executions of the debounced function a behaviour may contain.
MaxDebRuns == 3

\* The resize events handed to the debounced listener.
ResizeEvents == {1, 2}

\* debounce(() => this.drawChart(), 250)
debWaitMs == 250

\* Time is observed in fifths of the wait.
DebQuantum == debWaitMs \div 5

\* clearTimeout(timeout): timeout is undefined before the first call.
clearTimeout(timers, timeout) ==
    IF timeout = Nothing THEN timers
    ELSE {t \in timers : t.id # timeout[1]}

\* The id setTimeout returns: one that no pending timer has and that is
\* not the previous one.
freshId(timers, timeout) ==
    CHOOSE i \in 0..(Cardinality(timers) + 1) :
        /\ \A t \in timers : t.id # i
        /\ timeout # Just(i)
        /\ \A j \in 0..(i - 1) :
              (\E t \in timers : t.id = j) \/ timeout = Just(j)

\* The debounced function without clearTimeout before setTimeout.
executedFunctionNoClear(d, args) ==
    LET id == freshId(d.timers, d.timeout)
    IN  [timers  |-> d.timers \cup
                       {[id |-> id, left |-> debWaitMs, args |-> args]},
         timeout |-> Just(id)]

\* The function debounce returns, called with args: the pending timer is
\* cancelled and a new one is armed for a later() that holds args.
executedFunction(d, args) ==
    LET cleared == clearTimeout(d.timers, d.timeout)
        id == freshId(cleared, d.timeout)
    IN  [timers  |-> cleared \cup
                       {[id |-> id, left |-> debWaitMs, args |-> args]},
         timeout |-> Just(id)]

\* A resize event reaches the debounced listener.
ResizeEvent(args) ==
    /\ Len(debLog) < MaxDebRuns
    /\ LET d == executedFunction([timers |-> debTimers,
                                  timeout |-> debTimeout], args)
       IN  /\ debTimers' = d.timers
           /\ debTimeout' = d.timeout
    /\ debLastArgs' = Just(args)
    /\ debSince' = 0
    /\ debExecs' = 0
    /\ UNCHANGED debLog

\* A due timer runs later(): clearTimeout(timeout); func(...args).
DebounceFire ==
    \E t \in debTimers :
        /\ t.left = 0
        /\ debTimers' = clearTimeout(debTimers \ {t}, debTimeout)
        /\ debLog' = Append(debLog, t.args)
        /\ debExecs' = Min(debExecs + 1, 2)
        /\ UNCHANGED <<debTimeout, debLastArgs, debSince>>

DebounceAdvance ==
    /\ debTimers # {}
    /\ \A t \in debTimers : t.left > 0
    /\ LET d == Min(DebQuantum, SetMin({t.left : t \in debTimers}))
       IN  /\ debTimers' = {[t EXCEPT !.left = @ - d] : t \in debTimers}
           /\ debSince' = Min(debWaitMs, debSince + d)
    /\ UNCHANGED <<debTimeout, debLog, debLastArgs, debExecs>>

InitDebounce ==
    /\ debTimers = {}
    /\ debTimeout = Nothing
    /\ debLog = <<>>
    /\ debLastArgs = Nothing
    /\ debSince = 0
    /\ debExecs = 0

NextDebounce ==
    \/ \E args \in ResizeEvents :
          ResizeEvent(args)
              /\ UNCHANGED <<animVars, chatVars, formVars, scrollVars,
                             debOthers>>
    \/ DebounceFire
          /\ UNCHANGED <<animVars, chatVars, formVars, scrollVars, debOthers>>
    \/ DebounceAdvance
          /\ UNCHANGED <<animVars, chatVars, formVars, scrollVars, debOthers>>

(***************************************************************************)
(* showTooltip / hideTooltip (script.js 704-751)                           *)
(***************************************************************************)

\* Tooltip divs a behaviour may create.
MaxTooltips == 3

\* setTimeout(..., 10) of showTooltip and setTimeout(..., 200) of hideTooltip
tipFadeMs == 10

tipRemoveMs == 200

\* Time is observed in fifths of the removal delay.
TipQuantum == tipRemoveMs \div 5

MinLeft(seq) == SetMin({seq[k].left : k \in 1..Len(seq)})

\* showTooltip(e): a new div is appended to the body, its fade-in is
\* scheduled, and the element's handle is overwritten with it.
showTooltip(s) ==
    LET n == Len(s.created) + 1
    IN  [s EXCEPT
            !.created = Append(@, [attached |-> TRUE, opacity |-> "0"]),
            !.timers = Append(@, [kind |-> "fade", left |-> tipFadeMs,
                                  tip |-> n]),
            !.handle = Just(n)]

\* hideTooltip(e): with a handle set, fade it out and schedule the removal
\* of whatever the handle holds 200 later.
hideTooltip(s) ==
    IF s.handle # Nothing
    THEN [s EXCEPT
            !.created[s.handle[1]].opacity = "0",
            !.timers = Append(@, [kind |-> "remove", left |-> tipRemoveMs,
                                  tip |-> 0])]
    ELSE s

\* The timeout of hideTooltip: remove and forget the handle's tooltip.
removeLater(s) ==
    IF s.handle # Nothing
    THEN [s EXCEPT !.created[s.handle[1]].attached = FALSE,
                   !.handle = Nothing]
    ELSE s

\* The timeout of showTooltip for tooltip n.
fadeIn(s, n) == [s EXCEPT !.created[n].opacity = "1"]

TipState == [created |-> tipCreated, handle |-> tipHandle,
             timers |-> tipTimers]

SetTipState(s) ==
    /\ tipCreated' = s.created
    /\ tipHandle' = s.handle
    /\ tipTimers' = s.timers

\* mouseenter: the pointer moves onto the element.
MouseEnter ==
    /\ ~tipHover
    /\ Len(tipCreated) < MaxTooltips
    /\ tipHover' = TRUE
    /\ SetTipState(showTooltip(TipState))

\* mouseleave: the pointer moves off the element.
MouseLeave ==
    /\ tipHover
    /\ tipHover' = FALSE
    /\ SetTipState(hideTooltip(TipState))

\* A due timeout runs its callback.
TipTimerFire(k) ==
    /\ k \in 1..Len(tipTimers)
    /\ tipTimers[k].left = 0
    /\ LET rest == [TipState EXCEPT !.timers = RemoveAt(@, k)]
       IN  IF tipTimers[k].kind = "remove"
           THEN SetTipState(removeLater(rest))
           ELSE SetTipState(fadeIn(rest, tipTimers[k].tip))
    /\ UNCHANGED tipHover

TipAdvance ==
    /\ tipTimers # <<>>
    /\ \A k \in 1..Len(tipTimers) : tipTimers[k].left > 0
    /\ LET d == Min(TipQuantum, MinLeft(tipTimers))
       IN  tipTimers' = [k \in 1..Len(tipTimers) |->
                            [tipTimers[k] EXCEPT !.left = @ - d]]
    /\ UNCHANGED <<tipCreated, tipHandle, tipHover>>

InitTooltip ==
    /\ tipCreated = <<>>
    /\ tipHandle = Nothing
    /\ tipHover = FALSE
    /\ tipTimers = <<>>

NextTooltip ==
    \/ MouseEnter
          /\ UNCHANGED <<animVars, chatVars, formVars, scrollVars, tipOthers>>
    \/ MouseLeave
          /\ UNCHANGED <<animVars, chatVars, formVars, scrollVars, tipOthers>>
    \/ \E k \in 1..Len(tipTimers) :
          TipTimerFire(k)
              /\ UNCHANGED <<animVars, chatVars, formVars, scrollVars,
                             tipOthers>>
    \/ TipAdvance
          /\ UNCHANGED <<animVars, chatVars, formVars, scrollVars, tipOthers>>

(***************************************************************************)
(* NavigationController.updateActiveLink (script.js 124-128, 152-170)      *)
(***************************************************************************)

\* The sections of spec.md's example.
ExampleSections ==
    << [id |-> "home",     offsetTop |-> 0,   offsetHeight |-> 300],
       [id |-> "features", offsetTop |-> 300, offsetHeight |-> 500],
       [id |-> "contact",  offsetTop |-> 800, offsetHeight |-> 400] >>

\* The page layouts of the model: the example, a section nested in
\* another, and sections that leave gaps (scrollPos 100 of the freshly
\* loaded page lies in none of them).
NavLayouts == {
    ExampleSections,
    << [id |-> "home",     offsetTop |-> 0,   offsetHeight |-> 1200],
       [id |-> "features", offsetTop |-> 300, offsetHeight |-> 500],
       [id |-> "contact",  offsetTop |-> 1000, offsetHeight |-> 100] >>,
    << [id |-> "home",     offsetTop |-> 150, offsetHeight |-> 150],
       [id |-> "features", offsetTop |-> 400, offsetHeight |-> 300],
       [id |-> "contact",  offsetTop |-> 800, offsetHeight |-> 400] >> }

\* The navigation menus of the model: one link per section, two links to
\* the same section, and a section without a link.
NavMenus == {
    <<"#home", "#features", "#contact">>,
    <<"#home", "#features", "#features">>,
    <<"#home", "/pricing", "#contact">> }

\* Scroll offsets the browser reports, overscroll included.
NavPositions ==
    {0 - 100, 0, 50, 200, 250, 450, 699, 700, 900, 1099, 1100, 1300}

\* throttle(..., 100) around updateActiveLink
navLimitMs == 100

\* Time is observed in halves of that throttle window.
NavQuantum == navLimitMs \div 2

\* `#${sectionId}`
hashHref(id) ==
    CASE id = "home"     -> "#home"
      [] id = "features" -> "#features"
      [] id = "contact"  -> "#contact"

\* scrollPos >= sectionTop && scrollPos < sectionTop + sectionHeight
inSection(section, scrollPos) ==
    /\ scrollPos >= section.offsetTop
    /\ scrollPos < section.offsetTop + section.offsetHeight

\* The sections.forEach body without link.classList.remove('active').
sectionStepNoRemove(active, hrefs, section, scrollPos) ==
    IF inSection(section, scrollPos)
    THEN [l \in DOMAIN active |->
             active[l] \/ hrefs[l] = hashHref(section.id)]
    ELSE active

\* The sections.forEach body: for a section around scrollPos every link
\* loses 'active' and the links whose href names the section get it.
sectionStep(active, hrefs, section, scrollPos) ==
    IF inSection(section, scrollPos)
    THEN [l \in DOMAIN active |-> hrefs[l] = hashHref(section.id)]
    ELSE active

RECURSIVE forEachSection(_, _, _, _)
forEachSection(active, hrefs, sections, scrollPos) ==
    IF sections = <<>> THEN active
    ELSE forEachSection(sectionStep(active, hrefs, Head(sections), scrollPos),
                        hrefs, Tail(sections), scrollPos)

\* updateActiveLink() at window.scrollY = y: the links' new 'active' state.
updateActiveLink(active, hrefs, sections, y) ==
    forEachSection(active, hrefs, sections, y + 100)

\* A scroll listener that takes 'active' off every link before the update.
NavScrollEventClear(y) ==
    /\ scrollY' = y
    /\ IF throttleOpen(navInThrottle)
       THEN /\ navActive' =
                  updateActiveLink([l \in DOMAIN navActive |-> FALSE],
                                   navHrefs, navSections, y)
            /\ navLastPos' = Just(y + 100)
            /\ navInThrottle' = TRUE
            /\ navThrottleTimer' = Just(navLimitMs)
       ELSE UNCHANGED <<navActive, navLastPos, navInThrottle,
                        navThrottleTimer>>
    /\ UNCHANGED <<navSections, navHrefs, navMarkup>>

\* A scroll event at offset y reaches the throttled updateActiveLink.
NavScrollEvent(y) ==
    /\ scrollY' = y
    /\ IF throttleOpen(navInThrottle)
       THEN /\ navActive' =
                  updateActiveLink(navActive, navHrefs, navSections, y)
            /\ navLastPos' = Just(y + 100)
            /\ navInThrottle' = TRUE
            /\ navThrottleTimer' = Just(navLimitMs)
       ELSE UNCHANGED <<navActive, navLastPos, navInThrottle,
                        navThrottleTimer>>
    /\ UNCHANGED <<navSections, navHrefs, navMarkup>>

\* setTimeout(() => inThrottle = false, 100) fires.
NavThrottleFire ==
    /\ navThrottleTimer = Just(0)
    /\ navInThrottle' = FALSE
    /\ navThrottleTimer' = Nothing
    /\ UNCHANGED <<scrollY, navSections, navHrefs, navActive, navLastPos,
                   navMarkup>>

NavAdvance ==
    /\ navThrottleTimer # Nothing
    /\ navThrottleTimer[1] > 0
    /\ navThrottleTimer' =
          Just(navThrottleTimer[1] - Min(NavQuantum, navThrottleTimer[1]))
    /\ UNCHANGED <<scrollY, navSections, navHrefs, navActive, navLastPos,
                   navMarkup, navInThrottle>>

\* The state after the constructor: the markup may mark any links active,
\* and init() calls updateActiveLink() once on the freshly loaded page.
InitNav ==
    /\ navSections \in NavLayouts
    /\ navHrefs \in NavMenus
    /\ navMarkup \in [1..3 -> BOOLEAN]
    /\ navActive = updateActiveLink(navMarkup, navHrefs, navSections, 0)
    /\ navLastPos = Just(100)
    /\ navInThrottle = FALSE
    /\ navThrottleTimer = Nothing

\* The other variables scrollY shares its group with.
scrollRest == <<scrollHeight, innerHeight, progressWritten, progressWidth,
                inThrottle, throttleTimer>>

NextNav ==
    \/ \E y \in NavPositions :
          NavScrollEvent(y)
              /\ UNCHANGED <<animVars, chatVars, formVars, scrollRest, navOthers>>
    \/ NavThrottleFire
          /\ UNCHANGED <<animVars, chatVars, formVars, scrollRest, navOthers>>
    \/ NavAdvance /\ UNCHANGED <<animVars, chatVars, formVars, scrollRest, navOthers>>

(***************************************************************************)
(* NavigationController: mobile menu (script.js 100-122, 131-150)          *)
(***************************************************************************)

\* Where a click can land: the hamburger, a navigation link (they lie in
\* the menu), the menu beside its links, or anywhere else in the document.
ClickTargets ==
    {[kind |-> "hamburger", link |-> 0], [kind |-> "menu", link |-> 0],
     [kind |-> "outside", link |-> 0]}
        \cup {[kind |-> "link", link |-> l] : l \in 1..3}

\* href.startsWith('#')
startsWithHash(href) == href \in {"#home", "#features", "#contact"}

\* href.substring(1)
substring1(href) ==
    CASE href = "#home"     -> "home"
      [] href = "#features" -> "features"
      [] href = "#contact"  -> "contact"

MenuState == [menu |-> menuActive, hamburger |-> hamburgerActive,
              scrollTo |-> menuScrollTo]

\* toggleMobileMenu() that forgets the hamburger.
toggleMobileMenuOnly(s) == [s EXCEPT !.menu = ~@]

\* toggleMobileMenu()
toggleMobileMenu(s) == [s EXCEPT !.menu = ~@, !.hamburger = ~@]

\* closeMobileMenu()
closeMobileMenu(s) == [s EXCEPT !.menu = FALSE, !.hamburger = FALSE]

\* scrollToSection(sectionId): scrollTo 80 above the section, if it exists.
scrollToSection(s, sectionId) ==
    LET found == {k \in 1..Len(navSections) : navSections[k].id = sectionId}
    IN  IF found = {} THEN s
        ELSE [s EXCEPT !.scrollTo =
                 Just(navSections[SetMin(found)].offsetTop - 80)]

\* The click listener of a navigation link.
linkClick(s, href) ==
    IF startsWithHash(href)
    THEN closeMobileMenu(scrollToSection(s, substring1(href)))
    ELSE s

\* The click listener of the document.
documentClick(s, target) ==
    IF target.kind = "outside" THEN closeMobileMenu(s) ELSE s

\* A click: the listener of the element it lands on runs, then the click
\* bubbles to the document's listener.
Click(target) ==
    LET s1 == CASE target.kind = "hamburger" -> toggleMobileMenu(MenuState)
                [] target.kind = "link" ->
                       linkClick(MenuState, navHrefs[target.link])
                [] OTHER -> MenuState
        s2 == documentClick(s1, target)
    IN  /\ menuActive' = s2.menu
        /\ hamburgerActive' = s2.hamburger
        /\ menuScrollTo' = s2.scrollTo
        /\ menuLastClick' = Just(target)

\* The classes of the menu and the hamburger are those of the markup.
InitMenu ==
    /\ menuActive \in BOOLEAN
    /\ hamburgerActive \in BOOLEAN
    /\ menuScrollTo = Nothing
    /\ menuLastClick = Nothing

NextMenu ==
    \E target \in ClickTargets :
        Click(target)
            /\ UNCHANGED <<animVars, chatVars, formVars, scrollVars,
                           menuOthers>>

(***************************************************************************)
(* TabController (script.js 174-213)                                       *)
(***************************************************************************)

\* A button with the given data-tab and data-example attributes.
Button(dataTab, dataExample) ==
    [dataTab |-> dataTab, dataExample |-> dataExample]

\* An element id is a prefix followed by a name.
PanelId(prefix, name) == <<prefix, name>>

\* The containers of the model, as (buttons, panels): the feature tabs,
\* the example tabs, a container that mixes both kinds and repeats a tab,
\* and one with a button without attributes and an empty data-tab.
TabContainers == {
    << <<Button(Just("a"), Nothing), Button(Just("b"), Nothing),
         Button(Just("c"), Nothing)>>,
       <<PanelId("tab-", "a"), PanelId("tab-", "b"), PanelId("tab-", "c")>> >>,
    << <<Button(Nothing, Just("a")), Button(Nothing, Just("b")),
         Button(Nothing, Just("c"))>>,
       <<PanelId("example-", "a"), PanelId("example-", "b"),
         PanelId("example-", "c")>> >>,
    << <<Button(Just("a"), Nothing), Button(Just("a"), Nothing),
         Button(Nothing, Just("b"))>>,
       <<PanelId("tab-", "a"), PanelId("example-", "a"),
         PanelId("tab-", "b")>> >>,
    << <<Button(Nothing, Nothing), Button(Just(""), Just("b")),
         Button(Just("a"), Just("b"))>>,
       <<PanelId("tab-", "null"), PanelId("example-", "b"),
         PanelId("tab-", "a")>> >> }

\* button.getAttribute('data-tab') || button.getAttribute('data-example'):
\* a missing or empty data-tab gives way to data-example (null if missing).
buttonTabId(button) ==
    IF button.dataTab # Nothing /\ button.dataTab[1] # ""
    THEN button.dataTab
    ELSE button.dataExample

\* `${activeTabId}`: the text a template literal makes of the tab id.
templateText(tabId) == IF tabId = Nothing THEN "null" ELSE tabId[1]

TabState == [buttonActive |-> tabButtonActive,
             contentActive |-> tabContentActive]

\* switchTab that leaves the panels' classes alone before adding.
switchTabKeepContent(s, activeTabId) ==
    [s EXCEPT
        !.buttonActive = [b \in DOMAIN @ |->
            buttonTabId(tabButtons[b]) = activeTabId],
        !.contentActive = [c \in DOMAIN @ |->
            \/ @[c]
            \/ tabContents[c] = PanelId("tab-", templateText(activeTabId))
            \/ tabContents[c] =
                  PanelId("example-", templateText(activeTabId))]]

\* switchTab(activeTabId): every button and every panel loses 'active' and
\* gets it back if it belongs to the tab.
switchTab(s, activeTabId) ==
    [s EXCEPT
        !.buttonActive = [b \in DOMAIN @ |->
            buttonTabId(tabButtons[b]) = activeTabId],
        !.contentActive = [c \in DOMAIN @ |->
            \/ tabContents[c] = PanelId("tab-", templateText(activeTabId))
            \/ tabContents[c] =
                  PanelId("example-", templateText(activeTabId))]]

\* The click listener of button b.
TabClick(b) ==
    LET tabId == buttonTabId(tabButtons[b])
        s == switchTab(TabState, tabId)
    IN  /\ tabButtonActive' = s.buttonActive
        /\ tabContentActive' = s.contentActive
        /\ tabLastButton' = Just(b)
        /\ UNCHANGED <<tabButtons, tabContents>>

\* The constructor collects the buttons and panels; their classes are
\* those of the markup.
InitTab ==
    /\ \E container \in TabContainers :
          tabButtons = container[1] /\ tabContents = container[2]
    /\ tabButtonActive \in [1..3 -> BOOLEAN]
    /\ tabContentActive \in [1..3 -> BOOLEAN]
    /\ tabLastButton = Nothing

NextTab ==
    \E b \in 1..Len(tabButtons) :
        TabClick(b)
            /\ UNCHANGED <<animVars, chatVars, formVars, scrollVars,
                           tabOthers>>

(***************************************************************************)
(* Specifications                                                          *)
(***************************************************************************)

\* The page as loaded, for the components a specification leaves alone.
AnimDefaults ==
    /\ dataTarget = Nothing
    /\ sumsLow = FALSE
    /\ classList = [e \in Elements |->
                       IF e = "stat" THEN {"stat-number"} ELSE {}]

ScrollDefaults == scrollHeight = ViewportHeight

NavDefaults ==
    /\ navSections = ExampleSections
    /\ navHrefs = <<"#home", "#features", "#contact">>
    /\ navMarkup = <<FALSE, FALSE, FALSE>>
    /\ navActive = <<TRUE, FALSE, FALSE>>

ValDefaults ==
    /\ vName = "name"
    /\ vValue = <<>>
    /\ vError = FALSE

MenuDefaults == menuActive = FALSE /\ hamburgerActive = FALSE

TabDefaults ==
    /\ tabButtons = <<Button(Just("a"), Nothing), Button(Just("b"), Nothing),
                      Button(Just("c"), Nothing)>>
    /\ tabContents =
          <<PanelId("tab-", "a"), PanelId("tab-", "b"), PanelId("tab-", "c")>>
    /\ tabButtonActive = <<TRUE, FALSE, FALSE>>
    /\ tabContentActive = <<TRUE, FALSE, FALSE>>

LaterDefaults == MenuDefaults /\ TabDefaults

PageDefaults ==
    AnimDefaults /\ ScrollDefaults /\ NavDefaults /\ ValDefaults
        /\ LaterDefaults

Init == InitAnim /\ InitChat /\ InitForm /\ InitScroll /\ InitNav
           /\ InitValidate /\ InitDebounce /\ InitTooltip
           /\ InitMenu /\ InitTab

\* Initial states of the specifications: the component under study starts
\* in any of its initial states, the others as the defaults say.
AnimInit ==
    ScrollDefaults /\ NavDefaults /\ ValDefaults /\ LaterDefaults /\ Init

ChatInit == PageDefaults /\ Init

TypeInit ==
    PageDefaults /\ InitAnim /\ InitType /\ InitForm /\ InitScroll
        /\ InitNav /\ InitValidate /\ InitDebounce /\ InitTooltip
           /\ InitMenu /\ InitTab

FormInit == PageDefaults /\ Init

ScrollInit ==
    AnimDefaults /\ NavDefaults /\ ValDefaults /\ LaterDefaults /\ Init

NavInit ==
    AnimDefaults /\ ScrollDefaults /\ ValDefaults /\ LaterDefaults /\ Init

ValidateInit ==
    AnimDefaults /\ ScrollDefaults /\ NavDefaults /\ LaterDefaults /\ Init

SpecAnim == AnimInit /\ [][NextAnim]_vars

SpecChat == ChatInit /\ [][NextChat]_vars

SpecForm == FormInit /\ [][NextForm]_vars

SpecScroll == ScrollInit /\ [][NextScroll]_vars

SpecType == TypeInit /\ [][NextType]_vars

SpecValidate == ValidateInit /\ [][NextValidate]_vars

SpecNav == NavInit /\ [][NextNav]_vars

DebounceInit == PageDefaults /\ Init

TooltipInit == PageDefaults /\ Init

SpecTooltip == TooltipInit /\ [][NextTooltip]_vars

\* The menu with any layout and any navigation menu of the model.
MenuInit ==
    /\ AnimDefaults /\ ScrollDefaults /\ ValDefaults
    /\ navMarkup = <<FALSE, FALSE, FALSE>>
    /\ TabDefaults
    /\ Init

SpecMenu == MenuInit /\ [][NextMenu]_vars

TabInit ==
    /\ AnimDefaults /\ ScrollDefaults /\ NavDefaults /\ ValDefaults
    /\ MenuDefaults
    /\ Init

SpecTab == TabInit /\ [][NextTab]_vars

SpecDebounce == DebounceInit /\ [][NextDebounce]_vars

\* The event loop runs a timer callback once it is due, and time passes.
FormTimerStep ==
    /\ \/ \E k \in 1..Len(apiCalls) : \E resolved \in BOOLEAN :
              ApiTimerFire(k, resolved)
       \/ \E k \in 1..Len(banners) : BannerTimerFire(k)
       \/ StaleTimerFire
       \/ FormAdvance
    /\ UNCHANGED <<animVars, chatVars, scrollVars, moreVars>>

\* The browser keeps delivering the animation frames that were requested.
AnimFrameStep ==
    AnimationFrame /\ UNCHANGED <<chatVars, formVars, scrollVars, moreVars>>

FairSpecAnim == AnimInit /\ [][NextAnim]_vars /\ WF_vars(AnimFrameStep)

\* The chat timers of the browser: a due interval or timeout fires, and
\* time passes while none is due.
ChatTimerStep ==
    /\ \/ \E k \in 1..Len(timelines) : TypeTick(k)
       \/ \E k \in 1..Len(timelines) : DelayFire(k)
       \/ \E k \in 1..Len(timelines) : RestartFire(k)
       \/ ChatAdvance
    /\ UNCHANGED <<animVars, formVars, scrollVars, moreVars>>

FairSpecChat == ChatInit /\ [][NextChat]_vars /\ WF_vars(ChatTimerStep)

FairSpecForm == FormInit /\ [][NextForm]_vars /\ WF_vars(FormTimerStep)

(***************************************************************************)
(* Properties of the animation observer and the counter easing (SpecAnim)  *)
(***************************************************************************)

\* Every element has run the entered branch at most once, and exactly the
\* elements that ran it are in animatedElements and carry 'aos-animate';
\* at most one easing loop is alive for the counter element.
EnteredOnce ==
    /\ \A e \in Elements :
          /\ enteredCount[e] <= 1
          /\ enteredCount[e] = 1 <=> e \in animatedElements
          /\ "aos-animate" \in classList[e] <=> e \in animatedElements
    /\ Len(counterRuns) <= 1
    /\ \A k \in 1..Len(counterRuns) :
          counterRuns[k].el \in animatedElements

\* A step never removes an element from animatedElements and never runs the
\* entered branch for (or restarts the counter of) an element already in it.
StaysAnimated ==
    /\ animatedElements \subseteq animatedElements'
    /\ \A e \in animatedElements :
          /\ enteredCount'[e] = enteredCount[e]
          /\ Len(rendered'[e]) > Len(rendered[e]) =>
                \E k \in 1..Len(counterRuns) : counterRuns[k].el = e

\* C1: over any sequence of intersection callbacks (an element leaving and
\* re-entering view, several entries for it in one batch) the entered
\* processing of an element happens at most once, and an element in
\* animatedElements is never removed and never processed again.
C1_EnteredAtMostOnce == []EnteredOnce /\ [][StaysAnimated]_vars

\* The counter element and a plain element have been processed and the
\* counter has finished, so later callbacks for them hit the guard.
C1_Witness ==
    /\ enteredCount["stat"] = 1
    /\ "hero" \in animatedElements
    /\ rendered["stat"] # <<>>
    /\ counterRuns = <<>>

\* C2: for an integer target T >= 0 the values written by animateCounter
\* are non-decreasing, never exceed T, and the last value written is T.
C2_CounterEasing ==
    LET T == parseTarget(dataTarget)
        r == rendered["stat"]
    IN  T >= 0 =>
          /\ \A i \in 1..Len(r) : \A j \in i..Len(r) : r[i] <= r[j]
          /\ \A i \in 1..Len(r) : r[i] <= T
          /\ (r # <<>> /\ counterRuns = <<>>) => r[Len(r)] = T

\* A positive target has been eased to its end over more than 125 frames,
\* through at least two different displayed values.
C2_Witness ==
    /\ parseTarget(dataTarget) > 0
    /\ counterRuns = <<>>
    /\ Len(rendered["stat"]) > frames
    /\ rendered["stat"][1] < rendered["stat"][frames]

\* The ramp of the counter element has written its last value.
RampDone == rendered["stat"] # <<>> /\ counterRuns = <<>>

\* Updates made by a finished ramp when the sums are exact.
ExactUpdates == IF parseTarget(dataTarget) > 0 THEN frames ELSE 1

RampBounded ==
    /\ Len(counterRuns) <= 1
    /\ Len(rendered["stat"]) <= frames + 1
    /\ (RampDone /\ ~sumsLow /\ parseTarget(dataTarget) >= 0)
          => Len(rendered["stat"]) = ExactUpdates

RampStaysDone ==
    RampDone => (counterRuns' = <<>> /\ rendered' = rendered)

\* C14: animateCounter is one ramp that stops after finitely many frames:
\* with exact sums 125 updates for a target T > 0 and one update for T = 0
\* or a missing or non-numeric data-target; after the snap no frame is
\* requested and the displayed value never changes.
C14_CounterTerminates ==
    /\ []RampBounded
    /\ [][RampStaysDone]_vars
    /\ (enteredCount["stat"] = 1) ~> RampDone

\* A positive target eased with exact sums: done after exactly 125 updates.
C14_Witness ==
    /\ RampDone
    /\ ~sumsLow
    /\ parseTarget(dataTarget) > 0
    /\ Len(rendered["stat"]) = frames

(***************************************************************************)
(* Properties of the chat timeline (SpecChat)                              *)
(***************************************************************************)

\* The full text of the script message a container was created for.
FullText(el) == messages[el.msg + 1].text

IsFull(el) == el.textContent = FullText(el)

\* The containers present are those of messages 0, 1, 2, ... in this order.
ScriptOrder ==
    \A k \in 1..Len(messageContainer) : messageContainer[k].msg = k - 1

\* At most one container is partially typed and at most one typing interval
\* is running.
OnePartial ==
    /\ Cardinality({k \in 1..Len(messageContainer) :
                       ~IsFull(messageContainer[k])}) <= 1
    /\ Cardinality({k \in 1..Len(timelines) :
                       timelines[k].pc = "typing"}) <= 1

\* A container is appended after another only when that one is full and the
\* inter-message delay has passed since it became full.
NextAfterFull ==
    (Len(messageContainer) >= 1
        /\ Len(messageContainer') = Len(messageContainer) + 1)
    => /\ IsFull(messageContainer[Len(messageContainer)])
       /\ sinceTyped # Nothing
       /\ sinceTyped[1] >= messageDelayMs

\* C3: within a playback cycle the containers are created in script order,
\* container N+1 only after message N is fully displayed and the 1500 delay
\* has then elapsed, and at most one message is partially typed at a time.
C3_ChatOrdering == [](ScriptOrder /\ OnePartial) /\ [][NextAfterFull]_vars

\* The third message is being typed behind two complete ones.
C3_Witness ==
    /\ Len(messageContainer) = 3
    /\ IsFull(messageContainer[1]) /\ IsFull(messageContainer[2])
    /\ messageContainer[3].textContent # <<>>
    /\ ~IsFull(messageContainer[3])

\* At most one timeline exists, and from the first start on isAnimating is
\* set in every state a callback can run in.
OneTimeline ==
    /\ Len(timelines) <= 1
    /\ timelines # <<>> => isAnimating

\* C4: a visibility callback that finds isAnimating set starts nothing, so
\* at most one playback timeline is active in every state, and from the
\* first start on no callback can find isAnimating = false, the 5000
\* cooldown included.
C4_ReentryGuard == []OneTimeline /\ [][isAnimating => isAnimating']_vars

\* Visibility callbacks have arrived while a message was being typed and
\* during the cooldown, and one timeline is running.
C4_Witness ==
    /\ {"typing", "cooldown"} \subseteq reentrySeen
    /\ Len(timelines) = 1

LastIsFull ==
    /\ Len(messageContainer) = Len(messages)
    /\ IsFull(messageContainer[Len(messages)])

\* Once the last message is full, the container only changes by being
\* replaced, after the cooldown, with the fresh container of message 0.
RestartFromZero ==
    (LastIsFull /\ messageContainer' # messageContainer)
    => /\ sinceTyped # Nothing
       /\ sinceTyped[1] >= restartDelayMs
       /\ Len(messageContainer') = 1
       /\ messageContainer'[1].msg = 0
       /\ messageContainer'[1].textContent = <<>>
       /\ currentMessageIndex' = 0

\* C5: after the last script message is fully typed no container is created
\* until the cooldown has elapsed; then the rendered messages are cleared
\* and playback restarts from message 0.
C5_CooldownRestart == [][RestartFromZero]_vars

\* A restarted cycle is typing its second message.
C5_Witness ==
    /\ Len(timelines) = 1
    /\ timelines[1].restarted
    /\ Len(messageContainer) = 2
    /\ messageContainer[2].textContent # <<>>

\* Playback has been started at least once.
Started == isAnimating

\* A cycle begins: the container holds the fresh element of message 0 only.
CycleStart ==
    /\ Len(messageContainer) = 1
    /\ messageContainer[1].msg = 0
    /\ messageContainer[1].textContent = <<>>

InCooldown == \E k \in 1..Len(timelines) : timelines[k].pc = "cooldown"

\* C13: playback never terminates.  Once started, a timer of the playback
\* is pending in every state, every cycle reaches its cooldown and every
\* cooldown is followed by a new cycle that renders message 0, whether or
\* not the section becomes visible again.
C13_PlaybackForever ==
    /\ [](Started => timelines # <<>>)
    /\ [][Started => Started']_vars
    /\ Started ~> InCooldown
    /\ InCooldown ~> CycleStart

\* A cycle started by the restart timer begins with message 0.
C13_Witness ==
    /\ CycleStart
    /\ Len(timelines) = 1
    /\ timelines[1].restarted
    /\ timelines[1].pc = "typing"

(***************************************************************************)
(* Properties of the contact form (SpecForm, FairSpecForm)                 *)
(***************************************************************************)

Loading == submitDisabled /\ loadingDisplay = "inline"

LoadingCleared ==
    ~submitDisabled /\ loadingDisplay = "none" /\ labelDisplay = "inline"

\* At most one simulated call is pending, and one is pending exactly while
\* the loading state is shown.
OneCallInFlight ==
    /\ Len(apiCalls) <= 1
    /\ apiCalls # <<>> <=> Loading
    /\ apiCalls = <<>> <=> LoadingCleared

\* handleSubmit is not entered while the loading state is shown.
NoSubmitWhileLoading == Loading => lastSubmit'.calls = lastSubmit.calls

\* C6: once a valid submit has entered the loading state no second
\* submission starts until it has finished and the loading state is
\* cleared; at most one simulated API call is in flight in every state.
C6_NoDoubleSubmit == []OneCallInFlight /\ [][NoSubmitWhileLoading]_vars

\* A new submission is in flight while the success banner of the previous
\* one is still displayed.
C6_Witness ==
    /\ Len(apiCalls) = 1
    /\ Loading
    /\ \E k \in 1..Len(banners) : banners[k].class = "success-message"

\* A finished submission has shown exactly one banner, of the kind of its
\* outcome, and has cleared the loading state.
OneBannerPerOutcome ==
    /\ lastSubmit.outcome = "ok" =>
          lastSubmit.shown = <<"success-message">> /\ LoadingCleared
    /\ lastSubmit.outcome = "failed" =>
          lastSubmit.shown = <<"error-message">> /\ LoadingCleared
    /\ lastSubmit.outcome = "pending" => lastSubmit.shown = <<>>

\* C7: every submission that enters the loading state eventually leaves it
\* after the simulated call completes, whether it succeeded or failed, and
\* surfaces exactly one banner: success on success, error on failure.
C7_LoadingAlwaysCleared ==
    []OneBannerPerOutcome /\ (Loading ~> LoadingCleared)

\* A submission has failed: the error banner is up and the button is back.
C7_Witness ==
    /\ lastSubmit.outcome = "failed"
    /\ LoadingCleared
    /\ Len(banners) = 1
    /\ banners[1].class = "error-message"
    /\ banners[1].timer = bannerMs

SomeRequiredInvalid ==
    \E f \in Range(RequiredFields) : ~isValid(f, fieldValue[f])

\* What a call of handleSubmit does, by the validity of the required fields
\* at the time of the call.
SubmitOutcome ==
    lastSubmit'.calls # lastSubmit.calls =>
        IF SomeRequiredInvalid
        THEN /\ banners' = <<[class |-> "error-message", timer |-> bannerMs]>>
             /\ apiCalls' = apiCalls
             /\ submitDisabled' = submitDisabled
             /\ loadingDisplay' = loadingDisplay
             /\ labelDisplay' = labelDisplay
             /\ fieldValue' = fieldValue
             /\ \A f \in Range(RequiredFields) :
                   fieldError'[f] <=> ~isValid(f, fieldValue[f])
        ELSE /\ Len(apiCalls') = Len(apiCalls) + 1
             /\ Loading'
             /\ banners' = banners

\* C8: if a required input/select fails validateField at submit time,
\* handleSubmit shows the form-level error and returns without entering the
\* loading state, calling simulateApiCall or resetting the form; the call is
\* made only when every required field passes.
C8_SubmitBlockedOnInvalid == [][SubmitOutcome]_vars

\* A submit was refused for the e-mail address alone.
C8_Witness ==
    /\ lastSubmit.outcome = "invalid"
    /\ fieldError["email"]
    /\ ~fieldError["name"]
    /\ ~fieldError["team-size"]
    /\ fieldValue["email"] = Str("a@b")
    /\ Len(banners) = 1
    /\ banners[1].class = "error-message"
    /\ LoadingCleared

(***************************************************************************)
(* Properties of the scroll progress bar (SpecScroll)                      *)
(***************************************************************************)

\* x is a number between 0 and 100 inclusive.
InPercentRange(x) == x.kind = "num" /\ 0 <= x.n /\ x.n <= 100 * x.d

\* C9: for every scroll position and page geometry (negative scrollY from
\* overscroll and documentHeight equal to viewportHeight included) the width
\* percentage the scroll handler writes to the progress bar lies within 0
\* and 100 inclusive.
C9_ProgressClamped ==
    progressWritten # Nothing => InPercentRange(progressWritten[1])

\* C10: after any sequence of scroll events delivered through the 16-unit
\* throttle, on a page that can scroll, the bar's width is 0% at scrollY = 0
\* and 100% at scrollY = documentHeight - viewportHeight, and it never
\* exceeds 100%.
C10_ProgressEndpoints ==
    LET maxScroll == scrollHeight - innerHeight
    IN  maxScroll > 0 =>
          /\ scrollY = 0 => progressWidth = Num(0, 1)
          /\ scrollY = maxScroll => progressWidth = Num(100, 1)
          /\ InPercentRange(progressWidth)

(***************************************************************************)
(* Properties of the active navigation link (SpecNav)                      *)
(***************************************************************************)

\* The sections whose window contains scrollPos, by position in the page.
SectionsAround(scrollPos) ==
    {k \in 1..Len(navSections) : inSection(navSections[k], scrollPos)}

SetMax(S) == CHOOSE m \in S : \A x \in S : x <= m

\* C11: after updateActiveLink has run with scrollY + 100 inside the window
\* of at least one section, exactly the links whose href names the last
\* such section in document order are active; with sections [0,300),
\* [300,800), [800,1200) and scrollY = 450 that is the second section's link.
C11_ActiveLink ==
    LET around == SectionsAround(navLastPos[1])
    IN  /\ around # {} =>
              \A l \in 1..Len(navHrefs) :
                  navActive[l]
                      <=> navHrefs[l] = hashHref(navSections[SetMax(around)].id)
        /\ (/\ navSections = ExampleSections
            /\ navHrefs = <<"#home", "#features", "#contact">>
            /\ navLastPos = Just(550))
           => navActive = <<FALSE, TRUE, FALSE>>

\* spec.md's example: scrollY = 450 on the three-section page, and the
\* throttled listener has just run updateActiveLink there.
C11_Witness ==
    /\ navSections = ExampleSections
    /\ navHrefs = <<"#home", "#features", "#contact">>
    /\ scrollY = 450
    /\ navLastPos = Just(550)
    /\ navActive[2]

(***************************************************************************)
(* Properties of typeText (SpecType)                                       *)
(***************************************************************************)

IsPrefix(p, t) == Len(p) <= Len(t) /\ p = SubSeq(t, 1, Len(p))

\* What the element shows, and the text typeText was called with.
Shown == messageContainer[1].textContent

TypedText == timelines[1].text

Resolved == timelines[1].pc # "typing"

ShownIsPrefix == IsPrefix(Shown, TypedText)

\* An interval tick that writes appends the next character of the text.
TickAppendsNext ==
    Shown' # Shown =>
        /\ Len(Shown) < Len(TypedText)
        /\ Shown' = Append(Shown, TypedText[Len(Shown) + 1])

\* The promise resolves on a tick that writes nothing, with the whole text
\* on display.
ResolvesWhenFull ==
    (~Resolved /\ Resolved') => (Shown = TypedText /\ Shown' = Shown)

\* C12: the text shown by typeText is always a prefix of the full text, a
\* tick appends exactly the next character, and the promise resolves only
\* once the shown text equals the full text (for the empty text: with
\* nothing written).
C12_TypingPrefix ==
    /\ []ShownIsPrefix
    /\ [](Resolved => Shown = TypedText)
    /\ [][TickAppendsNext /\ ResolvesWhenFull /\ TypedText' = TypedText]_vars

\* A text of several characters typed to the end and resolved.
C12_Witness ==
    /\ Resolved
    /\ Len(TypedText) > 1
    /\ Shown = TypedText

\* The empty text resolved with the element shown and nothing written.
C12_EmptyResolved ==
    /\ Resolved
    /\ TypedText = <<>>
    /\ Shown = <<>>

(***************************************************************************)
(* Properties of validateField (SpecValidate)                              *)
(***************************************************************************)

\* v without its leading and trailing whitespace: the part between the
\* first and the last character that is not whitespace.
Trimmed(v) ==
    LET solid == {i \in 1..Len(v) : v[i] # " "}
    IN  IF solid = {} THEN <<>>
        ELSE SubSeq(v, CHOOSE a \in solid : \A i \in solid : a <= i,
                       SetMax(solid))

\* local@domain.tld: no whitespace, exactly one '@' with something before
\* it, and a '.' after it with something on both sides.
HasAddressForm(t) ==
    LET ats == {i \in 1..Len(t) : t[i] = "@"}
    IN  /\ \A i \in 1..Len(t) : t[i] # " "
        /\ Cardinality(ats) = 1
        /\ \E i \in ats :
              /\ i > 1
              /\ \E j \in (i + 2)..(Len(t) - 1) : t[j] = "."

\* The rule the specification gives for each named field.
Acceptable(name, v) ==
    CASE name \in {"name", "company"} -> Len(Trimmed(v)) >= 2
      [] name = "team-size"           -> Trimmed(v) # <<>>
      [] name = "email"               -> HasAddressForm(Trimmed(v))

\* C15: validateField accepts 'name' and 'company' iff the trimmed value has
\* at least 2 characters, 'team-size' iff it is non-empty and 'email' iff it
\* has the form local@domain.tld without whitespace or a second '@' ("a@b"
\* is rejected, "a@b.com" accepted); the field carries 'error' after the
\* call iff it was rejected.
C15_ValidateField ==
    (vResult # Nothing /\ vName # "message") =>
        /\ vResult[1] <=> Acceptable(vName, vValue)
        /\ vError <=> ~vResult[1]
        /\ (vName = "email" /\ vValue = <<"a", "@", "b">>) => ~vResult[1]
        /\ (vName = "email" /\ vValue = <<"a", "@", "b", ".", "c", "o", "m">>)
              => vResult[1]

\* An e-mail field that carried 'error' holds " a@b.com " and has been
\* validated: accepted, and the class is gone.
C15_Witness ==
    /\ vName = "email"
    /\ vValue = <<" ", "a", "@", "b", ".", "c", "o", "m", " ">>
    /\ vResult = Just(TRUE)
    /\ ~vError

(***************************************************************************)
(* Properties of the banners (SpecForm, FairSpecForm)                      *)
(***************************************************************************)

\* The banner in the form has just been shown: no time has passed for it.
FreshBanner == \E k \in 1..Len(banners) : banners[k].timer = bannerMs

\* A banner shown some time ago is in the form.
AgedBanner == \E k \in 1..Len(banners) : banners[k].timer < bannerMs

\* No banner in the form is older than the delay of its removal timer.
BannerAgeBounded ==
    \A k \in 1..Len(banners) : banners[k].timer \in 0..bannerMs

\* A banner stays only while time passes for it: a step keeps a banner with
\* a smaller remaining time, removes it, or replaces it with a fresh one.
BannerAges ==
    \A k \in 1..Len(banners') :
        \/ banners'[k].timer = bannerMs
        \/ /\ k <= Len(banners)
           /\ banners'[k].class = banners[k].class
           /\ banners'[k].timer <= banners[k].timer

\* C16: every banner appended to the form is eventually removed, at the
\* latest 5000 time units after it was shown, whatever the sequence of
\* submissions: no banner is older than 5000, time passes for a fresh
\* banner, and a banner shown some time ago goes away (the form is then
\* empty or holds a fresh one), again and again.
C16_BannerRemoved ==
    /\ []BannerAgeBounded
    /\ [][BannerAges]_vars
    /\ []<>~FreshBanner
    /\ []<>~AgedBanner

\* A banner has reached the end of its 5000 units and is still in the form:
\* its removal timer is due.
C16_Witness ==
    /\ Len(banners) = 1
    /\ banners[1].timer = 0

\* The form holds at most one banner.
AtMostOneBanner == Len(banners) <= 1

\* A banner leaves the form without a successor only through its own
\* timer, 5000 after it was shown; the timer of a replaced banner, when it
\* fires, leaves the form as it is.
OnlyOwnTimerRemoves ==
    /\ (banners # <<>> /\ banners' = <<>>) => banners[1].timer = 0
    /\ (0 \in staleTimers /\ staleTimers' = staleTimers \ {0}
            /\ apiCalls' = apiCalls /\ lastSubmit' = lastSubmit)
          => banners' = banners

\* C20: the form contains at most one banner in every state, because
\* showing a banner first removes the existing ones, and the 5000 timer of
\* an earlier, replaced banner never removes a later banner.
C20_SingleBanner == []AtMostOneBanner /\ [][OnlyOwnTimerRemoves]_vars

\* The timer of a replaced banner is due while its successor is displayed.
C20_Witness ==
    /\ Len(banners) = 1
    /\ banners[1].timer > 0
    /\ 0 \in staleTimers

ActiveLinks == {l \in 1..Len(navHrefs) : navActive[l]}

DistinctHrefs ==
    \A l \in 1..Len(navHrefs) : \A k \in 1..Len(navHrefs) :
        navHrefs[l] = navHrefs[k] => l = k

MarkupAtMostOne == Cardinality({l \in 1..Len(navHrefs) : navMarkup[l]}) <= 1

\* The call made by init() on the freshly loaded page, when scrollPos 100
\* lies in no section, leaves the markup's active links as they are.
InitialCallKeeps == SectionsAround(100) = {} => navActive = navMarkup

\* A call made by the scroll listener at a position that lies in no
\* section leaves every link as it is.
NoMatchKeeps ==
    (~navInThrottle /\ navInThrottle'
         /\ SectionsAround(scrollY' + 100) = {})
    => navActive' = navActive

\* C21: with distinct hrefs and at most one link active in the markup, at
\* most one link is active after any sequence of updateActiveLink calls;
\* a call whose scrollY + 100 lies in no section's window leaves the active
\* state of every link unchanged.
C21_SingleActiveLink ==
    /\ InitialCallKeeps
    /\ []((DistinctHrefs /\ MarkupAtMostOne) => Cardinality(ActiveLinks) <= 1)
    /\ [][NoMatchKeeps]_vars

\* The listener has run below the last section, where no window matches,
\* and the link that was active before is still the only active one.
C21_Witness ==
    /\ DistinctHrefs
    /\ MarkupAtMostOne
    /\ navLastPos # Just(100)
    /\ SectionsAround(navLastPos[1]) = {}
    /\ Cardinality(ActiveLinks) = 1

(***************************************************************************)
(* Properties of throttle, on the throttled updateActiveLink (SpecNav)     *)
(***************************************************************************)

\* The window is closed exactly while the limit timer is pending.
ThrottleWindow ==
    /\ navInThrottle <=> navThrottleTimer # Nothing
    /\ navThrottleTimer # Nothing => navThrottleTimer[1] \in 0..navLimitMs

\* While the window is closed no call runs: neither a scroll event nor the
\* limit timer executes the function.
DroppedWhileClosed ==
    navInThrottle => (navLastPos' = navLastPos /\ navActive' = navActive)

\* A call with the window open runs at once, with its own arguments, and
\* closes the window for the limit.
RunsWhenOpen ==
    (~navInThrottle /\ scrollY' # scrollY) =>
        /\ navLastPos' = Just(scrollY' + 100)
        /\ navInThrottle'
        /\ navThrottleTimer' = Just(navLimitMs)

\* Only the limit timer, once due, opens the window again.
ReopenedByTimer ==
    (navInThrottle /\ ~navInThrottle') => navThrottleTimer = Just(0)

\* C17: the throttled function runs at most once per limit interval: the
\* first call and the first call after the limit timer has fired run
\* immediately, every call in between is dropped, neither run nor deferred.
C17_Throttle ==
    /\ []ThrottleWindow
    /\ [][DroppedWhileClosed /\ RunsWhenOpen /\ ReopenedByTimer]_vars

\* The last call of a burst was dropped: the window has reopened and the
\* position of the page was never handed to updateActiveLink.
C17_Witness ==
    /\ ~navInThrottle
    /\ navThrottleTimer = Nothing
    /\ navLastPos # Just(scrollY + 100)

(***************************************************************************)
(* Properties of debounce (SpecDebounce)                                   *)
(***************************************************************************)

\* At most one timer of the debounced function is pending.
OnePendingTimer == Cardinality(debTimers) <= 1

\* After a call: while its timer is pending func has not run and the timer
\* measures the wait from that call; once no timer is pending func has run
\* exactly once since the call, with the arguments of the call.
OneRunPerBurst ==
    debLastArgs # Nothing =>
        IF debTimers # {}
        THEN /\ debExecs = 0
             /\ \A t \in debTimers :
                   t.left = debWaitMs - debSince /\ Just(t.args) = debLastArgs
        ELSE /\ debExecs = 1
             /\ debLog # <<>>
             /\ Just(debLog[Len(debLog)]) = debLastArgs

\* func runs only when no call was made during the last wait, with the
\* arguments of the most recent call, and leaves no timer behind.
RunsAfterQuiet ==
    debLog' # debLog =>
        /\ debSince = debWaitMs
        /\ debLog' = Append(debLog, debLastArgs[1])
        /\ debTimers' = {}

\* C18: the debounced function runs only after a quiet period of wait (250)
\* since the most recent call; a burst of calls yields exactly one
\* execution, after the last call and with its arguments; at most one
\* timer is pending at any time.
C18_Debounce ==
    /\ [](OnePendingTimer /\ OneRunPerBurst)
    /\ [][RunsAfterQuiet]_vars

\* Two bursts: each ended in one execution with the arguments of its last
\* call, which differ between the bursts.
C18_Witness ==
    /\ Len(debLog) = 2
    /\ debLog[1] # debLog[2]
    /\ debTimers = {}
    /\ debExecs = 1

(***************************************************************************)
(* Properties of the tooltips (SpecTooltip)                                *)
(***************************************************************************)

\* Tooltips of the element that are in the document.
AttachedTooltips == {n \in 1..Len(tipCreated) : tipCreated[n].attached}

\* With the pointer away and every timer fired, none of the element's
\* tooltips is left in the document.
NoTooltipLeft ==
    (~tipHover /\ tipTimers = <<>>) => AttachedTooltips = {}

\* While the pointer rests on the element, the tooltip of the latest
\* mouseenter stays in the document.
ShownWhileHovered ==
    (tipHover /\ tipHover') =>
        (Len(tipCreated) \in AttachedTooltips
            => Len(tipCreated) \in AttachedTooltips')

\* C19: for any interleaving of mouseenter, mouseleave and the 200-unit
\* removal timers, once the pointer has left and all timers have fired no
\* tooltip created for the element remains in the document, and while the
\* pointer rests on the element its tooltip is not removed by the timer of
\* an earlier mouseleave.
C19_TooltipLifecycle == []NoTooltipLeft /\ [][ShownWhileHovered]_vars

(***************************************************************************)
(* Properties of the mobile menu (SpecMenu)                                *)
(***************************************************************************)

MenuInSync == menuActive = hamburgerActive

\* A click on the hamburger flips the menu and the hamburger.
HamburgerFlips ==
    (menuLastClick' # Nothing /\ menuLastClick'[1].kind = "hamburger") =>
        /\ menuActive' = ~menuActive
        /\ hamburgerActive' = ~hamburgerActive

InPageLink(target) ==
    target.kind = "link" /\ startsWithHash(navHrefs[target.link])

\* After a click on an in-page link or outside the menu and the hamburger,
\* both are inactive.
ClosedAfterClick ==
    (/\ menuLastClick # Nothing
     /\ InPageLink(menuLastClick[1]) \/ menuLastClick[1].kind = "outside")
    => (~menuActive /\ ~hamburgerActive)

\* C22: if the menu and the hamburger agree at the start, they agree after
\* any sequence of hamburger clicks, link clicks and outside clicks; a
\* hamburger click flips both, and a click on an in-page link or outside
\* both elements leaves both inactive.
C22_MenuInSync ==
    /\ MenuInSync => []MenuInSync
    /\ []ClosedAfterClick
    /\ [][HamburgerFlips]_vars

\* The menu was opened with the hamburger and a click on an in-page link
\* has closed it and asked for the scroll to its section.
C22_Witness ==
    /\ menuLastClick # Nothing
    /\ InPageLink(menuLastClick[1])
    /\ menuScrollTo # Nothing
    /\ ~menuActive /\ ~hamburgerActive

(***************************************************************************)
(* Properties of the tabs (SpecTab)                                        *)
(***************************************************************************)

\* The tab a button stands for: its data-tab, or else its data-example.
TabOfButton(b) ==
    LET dataTab == tabButtons[b].dataTab
    IN  IF dataTab \in {Nothing, Just("")} THEN tabButtons[b].dataExample
        ELSE dataTab

\* The tab a panel stands for: its id without 'tab-' or 'example-'.
TabOfPanel(c) == tabContents[c][2]

ActiveButtons == {b \in 1..Len(tabButtons) : tabButtonActive[b]}

ActivePanels == {c \in 1..Len(tabContents) : tabContentActive[c]}

\* No two buttons and no two panels of the container stand for one tab.
DistinctTabIds ==
    /\ \A b \in 1..Len(tabButtons) : \A d \in 1..Len(tabButtons) :
          TabOfButton(b) = TabOfButton(d) => b = d
    /\ \A c \in 1..Len(tabContents) : \A d \in 1..Len(tabContents) :
          TabOfPanel(c) = TabOfPanel(d) => c = d

\* The text of a tab id inside an element id.
TabText(id) == IF id = Nothing THEN "null" ELSE id[1]

\* C23: after switchTab(id) a button is active iff its data-tab or
\* data-example value equals id and a panel is active iff its id is
\* 'tab-' + id or 'example-' + id; so with distinct tab ids at most one
\* button and at most one panel are active after any sequence of clicks,
\* and they belong to the tab clicked last.
C23_TabExclusive ==
    tabLastButton # Nothing =>
        LET id == TabOfButton(tabLastButton[1])
        IN  /\ ActiveButtons =
                  {b \in 1..Len(tabButtons) : TabOfButton(b) = id}
            /\ ActivePanels =
                  {c \in 1..Len(tabContents) :
                      /\ tabContents[c][1] \in {"tab-", "example-"}
                      /\ TabOfPanel(c) = TabText(id)}
            /\ DistinctTabIds =>
                  /\ ActiveButtons = {tabLastButton[1]}
                  /\ Cardinality(ActivePanels) <= 1

\* In the feature tabs the second tab was clicked: its button and its panel
\* are the active ones.
C23_Witness ==
    /\ DistinctTabIds
    /\ tabLastButton = Just(2)
    /\ tabButtons[2].dataTab = Just("b")
    /\ ActiveButtons = {2}
    /\ ActivePanels = {2}

====
